---- MODULE Spec2Model ----
(***************************************************************************)
(* Model of CreateMPMDMetadata.py, the Cura post-processing script that    *)
(* embeds an SJPG thumbnail and print metadata in a G-code document.       *)
(*                                                                         *)
(* Python str values are TLA+ strings, bytes values are sequences of       *)
(* integers 0..255, Python lists are sequences.  A Python value that may   *)
(* be None (or an unbound local) is a record tagged by its type.           *)
(***************************************************************************)
EXTENDS Integers, Sequences, FiniteSets, TLC

VARIABLES
    pc,               \* position inside execute, or the function under check
    data,             \* execute's argument: the list of layer strings
    data0,            \* history: data as it was passed to execute
    material,         \* local of execute (unbound when retrieval failed)
    infill_density,   \* local of execute (unbound when retrieval failed)
    snapshot,         \* local of execute: the QImage, or None
    sjpg_snapshot,    \* local of execute: the SJPG bytes, or None
    encoded_snapshot, \* local of execute: the base16 text, or None
    snapshot_gcode,   \* local of execute: the thumbnail block (list of lines)
    layer_pos,        \* position of the iterator of "for layer in data"
    call,             \* arguments of the helper call under check
    ret               \* what that call returned (and what it handed the encoder)

vars == <<pc, data, data0, material, infill_density, snapshot, sjpg_snapshot,
          encoded_snapshot, snapshot_gcode, layer_pos, call, ret>>

-----------------------------------------------------------------------------
(* Bounds of the model *)

MaxH == 5          \* image heights 1..MaxH (besides the thumbnail's 140)
MaxF == 3          \* fragment heights 0..MaxF (besides the default 16)
MaxStripLen == 2   \* a compressed strip has 0..MaxStripLen bytes, or
LargeStripLen == 300 \* LargeStripLen bytes (a length that needs two bytes)
MaxHexLen == 5     \* hex strings of 0..MaxHexLen characters
MaxChunk == 3      \* chunk sizes 1..MaxChunk
MaxDocLines == 3   \* a document is made of 1..MaxDocLines lines

-----------------------------------------------------------------------------
(* Program constants *)

SJPG_FILE_FORMAT_VERSION == "V1.00"
THUMBNAIL_WIDTH == 140
THUMBNAIL_HEIGHT == 140
DefaultFragmentHeight == 16
DefaultChunkSize == 80

-----------------------------------------------------------------------------
(* Python values *)

PyNone == [type |-> "NoneType"]
Unbound == [type |-> "unbound"]
PyBytes(b) == [type |-> "bytes", val |-> b]
PyStr(s) == [type |-> "str", val |-> s]
PyList(l) == [type |-> "list", val |-> l]
PyImage == [type |-> "QImage"]
NoCall == [fn |-> "none"]

Min(a, b) == IF a < b THEN a ELSE b

RECURSIVE SumSeq(_)
SumSeq(s) == IF s = <<>> THEN 0 ELSE Head(s) + SumSeq(Tail(s))

RECURSIVE Flatten(_)
Flatten(ss) == IF ss = <<>> THEN <<>> ELSE Head(ss) \o Flatten(Tail(ss))

-----------------------------------------------------------------------------
(* _convertImageToSJPG *)

\* int.to_bytes(2, byteorder="little"); OverflowError outside 0..65535
ToBytesFits(x) == x >= 0 /\ x < 65536
ToBytes2(x) == <<x % 256, x \div 256>>

\* str.encode("UTF-8") for the characters of the magic tag and the version
Ord == [c \in {"_", "S", "J", "P", "G", "V", "1", ".", "0"} |->
          CASE c = "_" -> 95 [] c = "S" -> 83 [] c = "J" -> 74
            [] c = "P" -> 80 [] c = "G" -> 71 [] c = "V" -> 86
            [] c = "1" -> 49 [] c = "." -> 46 [] c = "0" -> 48]
EncodeUTF8(s) == [i \in 1..Len(s) |-> Ord[SubSeq(s, i, i)]]

\* a variant that rounds the quotient down
PartsFloor(height, fragment_height) == height \div fragment_height

\* parts = math.ceil(height / fragment_height), for fragment_height > 0
Parts(height, fragment_height) ==
    (height + fragment_height - 1) \div fragment_height

\* a variant that crops a full fragment for every strip
CropFull(i, width, height, fragment_height) ==
    [x |-> 0, y |-> i * fragment_height, w |-> width, h |-> fragment_height]

\* the rectangle of snapshot.copy in iteration i (0-based);
\* row_remaining is height - i * fragment_height when iteration i starts
Crop(i, width, height, fragment_height) ==
    [x |-> 0, y |-> i * fragment_height, w |-> width,
     h |-> Min(height - i * fragment_height, fragment_height)]

Crops(width, height, fragment_height) ==
    [j \in 1..Parts(height, fragment_height) |->
        Crop(j - 1, width, height, fragment_height)]

\* header = magic ++ version ++ width ++ height ++ parts ++ fragment_height
\*          ++ one length per strip
SJPGHeader(width, height, parts, fragment_height, lenbuf) ==
    EncodeUTF8("_SJPG__")
    \o (<<0>> \o EncodeUTF8(SJPG_FILE_FORMAT_VERSION) \o <<0>>)
    \o ToBytes2(width) \o ToBytes2(height) \o ToBytes2(parts)
    \o ToBytes2(fragment_height)
    \o Flatten([j \in 1..Len(lenbuf) |-> ToBytes2(lenbuf[j])])

\* The whole function.  jpg is what the JPG encoder did: jpg.raises when a
\* Qt call threw, else jpg.strips[j] is the buffer content of strip j.
\* Every exception is caught and the function then returns None.
ConvertImageToSJPG(width, height, fragment_height, jpg) ==
    IF fragment_height = 0 \/ jpg.raises
    THEN PyNone
    ELSE LET parts == Parts(height, fragment_height)
             lenbuf == [j \in 1..parts |-> Len(jpg.strips[j])]
             sjpeg_data == Flatten(jpg.strips)
         IN IF /\ ToBytesFits(width) /\ ToBytesFits(height)
               /\ ToBytesFits(parts) /\ ToBytesFits(fragment_height)
               /\ \A j \in 1..parts : ToBytesFits(lenbuf[j])
            THEN PyBytes(SJPGHeader(width, height, parts, fragment_height,
                                    lenbuf) \o sjpeg_data)
            ELSE PyNone

\* the buffers the JPG encoder can hand back for one strip
StripDatas == {[j \in 1..n |-> 255] : n \in 0..MaxStripLen}

\* what the encoder can do over a call that crops n strips: any of the
\* small buffers for each strip, or a large first strip, or an exception
JpgOutcomes(n) ==
    {[raises |-> FALSE, strips |-> s] : s \in [1..n -> StripDatas]}
    \cup {[raises |-> FALSE,
           strips |-> [j \in 1..n |-> IF j = 1 THEN [b \in 1..LargeStripLen |-> 216]
                                      ELSE <<255>>]]}
    \cup {[raises |-> TRUE, strips |-> <<>>]}

-----------------------------------------------------------------------------
(* _encodeSnapshot *)

HexUpper == "0123456789ABCDEF"

\* the two base16 characters of one byte
B16Byte(x) ==
    SubSeq(HexUpper, (x \div 16) + 1, (x \div 16) + 1)
    \o SubSeq(HexUpper, (x % 16) + 1, (x % 16) + 1)

\* the base16 text of bytes lo..hi of b (the range is halved to keep the
\* evaluation shallow)
RECURSIVE B16Range(_, _, _)
B16Range(b, lo, hi) ==
    IF lo > hi THEN ""
    ELSE IF lo = hi THEN B16Byte(b[lo])
         ELSE B16Range(b, lo, (lo + hi) \div 2)
              \o B16Range(b, ((lo + hi) \div 2) + 1, hi)

\* base64.b16encode(bytes).decode("ascii")
B16Encode(b) == B16Range(b, 1, Len(b))

LowerChar(c) ==
    CASE c = "A" -> "a" [] c = "B" -> "b" [] c = "C" -> "c"
      [] c = "D" -> "d" [] c = "E" -> "e" [] c = "F" -> "f"
      [] OTHER -> c

RECURSIVE LowerRange(_, _, _)
LowerRange(s, lo, hi) ==
    IF lo > hi THEN ""
    ELSE IF lo = hi THEN LowerChar(SubSeq(s, lo, lo))
         ELSE LowerRange(s, lo, (lo + hi) \div 2)
              \o LowerRange(s, ((lo + hi) \div 2) + 1, hi)

\* str.lower()
Lower(s) == LowerRange(s, 1, Len(s))

\* b16encode(None) raises TypeError, which is caught: the result is None
EncodeSnapshot(snap) ==
    IF snap.type = "bytes" THEN PyStr(Lower(B16Encode(snap.val))) ELSE PyNone

-----------------------------------------------------------------------------
(* _convertSnapshotToGcode *)

\* a variant that drops a trailing chunk shorter than chunk_size
RECURSIVE ChunksWhole(_, _, _)
ChunksWhole(s, i, chunk_size) ==
    IF i + chunk_size > Len(s) THEN <<>>
    ELSE <<"W220 " \o SubSeq(s, i + 1, i + chunk_size)>>
         \o ChunksWhole(s, i + chunk_size, chunk_size)

\* ["W220 {}".format(s[i : i + chunk_size]) for i in range(i, len(s), chunk_size)]
RECURSIVE Chunks(_, _, _)
Chunks(s, i, chunk_size) ==
    IF i >= Len(s) THEN <<>>
    ELSE <<"W220 " \o SubSeq(s, i + 1, Min(i + chunk_size, Len(s)))>>
         \o Chunks(s, i + chunk_size, chunk_size)

\* the list built for a str argument
GcodeLines(s, chunk_size) ==
    <<"; thumbnail begin", "W221">> \o Chunks(s, 0, chunk_size)
    \o <<"W222", "; thumbnail end", "">>

\* len(None) raises TypeError and nothing catches it
GcodeRaises(encoded) == encoded.type # "str"

-----------------------------------------------------------------------------
(* str and list operations used by execute *)

\* str.startswith
StartsWith(s, prefix) ==
    Len(s) >= Len(prefix) /\ SubSeq(s, 1, Len(prefix)) = prefix

\* the positions of character c in s
Positions(s, c) == {i \in 1..Len(s) : SubSeq(s, i, i) = c}

\* the position of the first "\n" of s at or after start, Len(s) + 1 if none
NextNewline(s, start) ==
    CHOOSE i \in start..(Len(s) + 1) :
      /\ i = Len(s) + 1 \/ SubSeq(s, i, i) = "\n"
      /\ \A j \in start..(i - 1) : SubSeq(s, j, j) # "\n"

\* the pieces of s from position start on, the first one ending before stop
RECURSIVE SplitFrom(_, _, _)
SplitFrom(s, start, stop) ==
    IF stop > Len(s) THEN <<SubSeq(s, start, Len(s))>>
    ELSE <<SubSeq(s, start, stop - 1)>>
         \o SplitFrom(s, stop + 1, NextNewline(s, stop + 1))

\* str.split("\n"): the pieces between consecutive separators
Split(s) == SplitFrom(s, 1, NextNewline(s, 1))

RECURSIVE JoinRange(_, _, _)
JoinRange(lines, lo, hi) ==
    IF lo > hi THEN ""
    ELSE IF lo = hi THEN lines[lo]
         ELSE JoinRange(lines, lo, (lo + hi) \div 2) \o "\n"
              \o JoinRange(lines, ((lo + hi) \div 2) + 1, hi)

\* "\n".join(lines)
Join(lines) == JoinRange(lines, 1, Len(lines))

\* list.index(x): the first position holding a value equal to x
Index(l, x) == CHOOSE i \in 1..Len(l) : l[i] = x /\ \A j \in 1..(i - 1) : l[j] # x

\* list.insert(i, x) with i the 1-based position the new item takes
Insert(l, i, x) == SubSeq(l, 1, i - 1) \o <<x>> \o SubSeq(l, i, Len(l))

\* l[i:i] = xs with i the 1-based position the first new item takes
InsertAll(l, i, xs) == SubSeq(l, 1, i - 1) \o xs \o SubSeq(l, i, Len(l))

\* line.rsplit(" ", 1)[1]: the text after the last space (the lines it is
\* applied to hold a space, the one that ends the usage label)
AfterLastSpace(s) ==
    LET sp == Positions(s, " ")
        last == CHOOSE i \in sp : \A j \in sp : j <= i
    IN SubSeq(s, last + 1, Len(s))

RECURSIVE RemoveMRange(_, _, _)
RemoveMRange(s, lo, hi) ==
    IF lo > hi THEN ""
    ELSE IF lo = hi THEN (IF SubSeq(s, lo, lo) = "m" THEN ""
                          ELSE SubSeq(s, lo, lo))
         ELSE RemoveMRange(s, lo, (lo + hi) \div 2)
              \o RemoveMRange(s, ((lo + hi) \div 2) + 1, hi)

\* str.replace("m", "")
RemoveM(s) == RemoveMRange(s, 1, Len(s))

Digits == "0123456789"
IsDigit(c) == \E d \in 1..10 : SubSeq(Digits, d, d) = c
DigitVal(c) == (CHOOSE d \in 1..10 : SubSeq(Digits, d, d) = c) - 1
DigitChar(d) == SubSeq(Digits, d + 1, d + 1)

RECURSIVE StrToNat(_, _)
StrToNat(s, acc) ==
    IF Len(s) = 0 THEN acc
    ELSE StrToNat(SubSeq(s, 2, Len(s)), acc * 10 + DigitVal(SubSeq(s, 1, 1)))

RECURSIVE NatToStr(_)
NatToStr(n) ==
    IF n < 10 THEN DigitChar(n) ELSE NatToStr(n \div 10) \o DigitChar(n % 10)

\* float(s) for plain decimal literals (digits with at most one point);
\* anything else the model feeds it raises ValueError.  The value is kept
\* exactly, in units of 10^-5.
FloatParses(s) ==
    /\ \A i \in 1..Len(s) : IsDigit(SubSeq(s, i, i)) \/ SubSeq(s, i, i) = "."
    /\ Cardinality({i \in 1..Len(s) : SubSeq(s, i, i) = "."}) <= 1
    /\ \E i \in 1..Len(s) : IsDigit(SubSeq(s, i, i))

FloatE5(s) ==
    LET dots == {i \in 1..Len(s) : SubSeq(s, i, i) = "."}
        dot == IF dots = {} THEN Len(s) + 1 ELSE CHOOSE i \in dots : TRUE
        frac == SubSeq(s, dot + 1, Len(s)) \o "000000"
    IN StrToNat(SubSeq(s, 1, dot - 1), 0) * 100000
       + StrToNat(SubSeq(frac, 1, 5), 0)
       + (IF DigitVal(SubSeq(frac, 6, 6)) >= 5 THEN 1 ELSE 0)

\* f"{amount_m * 1000:.2f}" where amount_m is e5 * 10^-5
FormatMm2f(e5) ==
    NatToStr(e5 \div 100) \o "." \o DigitChar((e5 \div 10) % 10)
    \o DigitChar(e5 % 10)

-----------------------------------------------------------------------------
(* execute: the scan of one layer *)

FilamentPrefix == ";Filament used: "
GeneratorPrefix == ";Generated with Cura"

\* the body of `if line.startswith(";Filament used: ")` for a matching line
FilamentBranch(lines, line, mat, inf) ==
    LET line_index == Index(lines, line)
        text == RemoveM(AfterLastSpace(line))
        used == [lines EXCEPT ![line_index] =
                    ";FilamentUsed:" \o FormatMm2f(FloatE5(text))]
    IN IF ~FloatParses(text) \/ mat.type = "unbound" \/ inf.type = "unbound"
       THEN [lines |-> lines, raised |-> TRUE]
       ELSE [lines |-> Insert(Insert(used, line_index,
                                     ";FilamentType:" \o mat.val),
                              line_index, ";InfillDensity:" \o inf.val),
             raised |-> FALSE]

\* a variant whose slice assignment overwrites the generator line
GeneratorBranchOverwrite(lines, line, gcode) ==
    IF gcode.type = "unbound"
    THEN [lines |-> lines, raised |-> TRUE]
    ELSE LET line_index == Index(lines, line)
         IN [lines |-> SubSeq(lines, 1, line_index - 1) \o gcode.val
                       \o SubSeq(lines, line_index + 1, Len(lines)),
             raised |-> FALSE]

\* the body of `if line.startswith(";Generated with Cura")`, before its break
GeneratorBranch(lines, line, gcode) ==
    IF gcode.type = "unbound"
    THEN [lines |-> lines, raised |-> TRUE]
    ELSE LET line_index == Index(lines, line)
             insert_index == line_index + 1
         IN [lines |-> InsertAll(lines, insert_index, gcode.val),
             raised |-> FALSE]

\* `for line in lines:` from iterator position p (1-based) on; the list the
\* iterator walks is the list the body mutates
RECURSIVE ScanLines(_, _, _, _, _)
ScanLines(lines, p, mat, inf, gcode) ==
    IF p > Len(lines) THEN [lines |-> lines, raised |-> FALSE]
    ELSE LET line == lines[p]
             fil == IF StartsWith(line, FilamentPrefix)
                    THEN FilamentBranch(lines, line, mat, inf)
                    ELSE [lines |-> lines, raised |-> FALSE]
         IN IF fil.raised THEN fil
            ELSE IF StartsWith(line, GeneratorPrefix)
                 THEN GeneratorBranch(fil.lines, line, gcode)
                 ELSE ScanLines(fil.lines, p + 1, mat, inf, gcode)

\* one iteration of `for layer in data:`; the new data, or the exception
LayerStep(d, pos, mat, inf, gcode) ==
    LET layer == d[pos]
        layer_index == Index(d, layer)
        scan == ScanLines(Split(d[layer_index]), 1, mat, inf, gcode)
    IN IF scan.raised THEN [data |-> d, raised |-> TRUE]
       ELSE [data |-> [d EXCEPT ![layer_index] = Join(scan.lines)],
             raised |-> FALSE]

-----------------------------------------------------------------------------
(* execute: inputs *)

\* what the print settings yield when their retrieval succeeds
MaterialName == "PLA"
InfillDensity == "20"

\* the encoder output for a strip of the thumbnail in the runs of execute
ThumbnailStrip == <<255, 216>>

\* the lines a layer can be made of
GeneratorLine == ";Generated with Cura_SteamEngine 5.0.0"
UsageLine == ";Filament used: 12.500m"
UsageLineNoValue == ";Filament used: "
MoveLine == "G28"
LineTexts == {GeneratorLine, UsageLine, UsageLineNoValue, MoveLine}

\* the layers of n lines
RawSegments(n) == {Join(l) : l \in [1..n -> LineTexts]}

\* the thumbnail block of a run whose conversion succeeds
ThumbnailGcode ==
    GcodeLines(
        EncodeSnapshot(
            ConvertImageToSJPG(THUMBNAIL_WIDTH, THUMBNAIL_HEIGHT,
                DefaultFragmentHeight,
                [raises |-> FALSE,
                 strips |-> [j \in 1..Parts(THUMBNAIL_HEIGHT,
                                            DefaultFragmentHeight)
                               |-> ThumbnailStrip]])).val,
        DefaultChunkSize)

\* layers that already went through the script once (a document that is
\* post-processed again holds such text)
ProcessedSegments ==
    {Join(ScanLines(<<l>>, 1, PyStr(MaterialName), PyStr(InfillDensity),
                    PyList(ThumbnailGcode)).lines) :
        l \in {GeneratorLine}}

\* a processed layer counts as the one line it was made from
Segments(n) == RawSegments(n) \cup (IF n = 1 THEN ProcessedSegments ELSE {})

\* the documents made of n lines, split into layers in every way
RECURSIVE DocumentsOf(_)
DocumentsOf(n) ==
    IF n = 0 THEN {<<>>}
    ELSE UNION {{<<seg>> \o d : seg \in Segments(k), d \in DocumentsOf(n - k)} :
                  k \in 1..n}

Documents == UNION {DocumentsOf(n) : n \in 1..MaxDocLines}

-----------------------------------------------------------------------------
(* execute, step by step *)

\* a variant of the test that lets None through
SnapshotTruthyAlways(s) == TRUE

\* `if snapshot:`
SnapshotTruthy(s) == s.type # "NoneType"

Init ==
    /\ pc = "settings"
    /\ data \in Documents
    /\ data0 = data
    /\ material = Unbound
    /\ infill_density = Unbound
    /\ snapshot = Unbound
    /\ sjpg_snapshot = Unbound
    /\ encoded_snapshot = Unbound
    /\ snapshot_gcode = Unbound
    /\ layer_pos = 0
    /\ call = NoCall
    /\ ret = NoCall

\* the try block that reads material and infill_density; its bare except
\* logs and goes on
RetrieveSettings ==
    /\ pc = "settings"
    /\ \E outcome \in {"ok", "assert_fails", "getProperty_raises"} :
         /\ material' = IF outcome = "assert_fails" THEN Unbound
                        ELSE PyStr(MaterialName)
         /\ infill_density' = IF outcome = "ok" THEN PyStr(InfillDensity)
                              ELSE Unbound
    /\ pc' = "snapshot"
    /\ UNCHANGED <<data, data0, snapshot, sjpg_snapshot, encoded_snapshot,
                   snapshot_gcode, layer_pos, call, ret>>

\* snapshot = self._createSnapshot(width, height), and the test on it
CreateSnapshot ==
    /\ pc = "snapshot"
    /\ \E outcome \in {"image", "none", "raises"} :
         snapshot' = IF outcome = "image" THEN PyImage ELSE PyNone
    /\ pc' = IF SnapshotTruthy(snapshot') THEN "convert" ELSE "return"
    /\ UNCHANGED <<data, data0, material, infill_density, sjpg_snapshot,
                   encoded_snapshot, snapshot_gcode, layer_pos, call, ret>>

\* sjpg_snapshot = self._convertImageToSJPG(snapshot, width, height, quality)
ConvertStep ==
    /\ pc = "convert"
    /\ \E raises \in (IF snapshot = PyImage THEN BOOLEAN ELSE {TRUE}) :
         sjpg_snapshot' =
            ConvertImageToSJPG(THUMBNAIL_WIDTH, THUMBNAIL_HEIGHT,
                DefaultFragmentHeight,
                [raises |-> raises,
                 strips |-> [j \in 1..Parts(THUMBNAIL_HEIGHT,
                                            DefaultFragmentHeight)
                               |-> ThumbnailStrip]])
    /\ pc' = "encode"
    /\ UNCHANGED <<data, data0, material, infill_density, snapshot,
                   encoded_snapshot, snapshot_gcode, layer_pos, call, ret>>

\* encoded_snapshot = self._encodeSnapshot(sjpg_snapshot, width, height)
EncodeStep ==
    /\ pc = "encode"
    /\ encoded_snapshot' = EncodeSnapshot(sjpg_snapshot)
    /\ pc' = "gcode"
    /\ UNCHANGED <<data, data0, material, infill_density, snapshot,
                   sjpg_snapshot, snapshot_gcode, layer_pos, call, ret>>

\* snapshot_gcode = self._convertSnapshotToGcode(encoded_snapshot, width, height)
GcodeStep ==
    /\ pc = "gcode"
    /\ IF GcodeRaises(encoded_snapshot)
       THEN /\ pc' = "raised"
            /\ UNCHANGED <<snapshot_gcode, layer_pos>>
       ELSE /\ snapshot_gcode' =
                  PyList(GcodeLines(encoded_snapshot.val, DefaultChunkSize))
            /\ layer_pos' = 1
            /\ pc' = "layers"
    /\ UNCHANGED <<data, data0, material, infill_density, snapshot,
                   sjpg_snapshot, encoded_snapshot, call, ret>>

\* one iteration of `for layer in data:`
ProcessLayer ==
    /\ pc = "layers"
    /\ layer_pos <= Len(data)
    /\ LET step == LayerStep(data, layer_pos, material, infill_density,
                             snapshot_gcode)
       IN IF step.raised
          THEN /\ pc' = "raised"
               /\ UNCHANGED <<data, layer_pos>>
          ELSE /\ data' = step.data
               /\ layer_pos' = layer_pos + 1
               /\ pc' = "layers"
    /\ UNCHANGED <<data0, material, infill_density, snapshot, sjpg_snapshot,
                   encoded_snapshot, snapshot_gcode, call, ret>>

\* the iterator is exhausted
LayersDone ==
    /\ pc = "layers"
    /\ layer_pos > Len(data)
    /\ pc' = "return"
    /\ UNCHANGED <<data, data0, material, infill_density, snapshot,
                   sjpg_snapshot, encoded_snapshot, snapshot_gcode, layer_pos,
                   call, ret>>

\* return data
Return ==
    /\ pc = "return"
    /\ pc' = "done"
    /\ UNCHANGED <<data, data0, material, infill_density, snapshot,
                   sjpg_snapshot, encoded_snapshot, snapshot_gcode, layer_pos,
                   call, ret>>

Next ==
    \/ RetrieveSettings
    \/ CreateSnapshot
    \/ ConvertStep
    \/ EncodeStep
    \/ GcodeStep
    \/ ProcessLayer
    \/ LayersDone
    \/ Return

Spec == Init /\ [][Next]_vars

-----------------------------------------------------------------------------
(* _convertImageToSJPG on its own *)

IdleExecute ==
    /\ data = <<>>
    /\ data0 = <<>>
    /\ material = Unbound
    /\ infill_density = Unbound
    /\ snapshot = Unbound
    /\ sjpg_snapshot = Unbound
    /\ encoded_snapshot = Unbound
    /\ snapshot_gcode = Unbound
    /\ layer_pos = 0

execVars == <<data, data0, material, infill_density, snapshot, sjpg_snapshot,
              encoded_snapshot, snapshot_gcode, layer_pos>>

SJPGArgs ==
    {[fn |-> "_convertImageToSJPG", width |-> w, height |-> h,
      fragment_height |-> f] :
        w \in {THUMBNAIL_WIDTH, 320, 65536}, h \in 1..MaxH, f \in 0..MaxF}
    \cup {[fn |-> "_convertImageToSJPG", width |-> THUMBNAIL_WIDTH,
           height |-> THUMBNAIL_HEIGHT,
           fragment_height |-> DefaultFragmentHeight]}

InitSJPG ==
    /\ pc = "call"
    /\ call \in SJPGArgs
    /\ ret = NoCall
    /\ IdleExecute

CallConvertImageToSJPG ==
    /\ pc = "call"
    /\ call.fn = "_convertImageToSJPG"
    /\ LET n == IF call.fragment_height = 0 THEN 0
                ELSE Parts(call.height, call.fragment_height)
       IN \E jpg \in JpgOutcomes(n) :
            ret' = [crops |-> IF call.fragment_height = 0 \/ jpg.raises
                              THEN <<>>
                              ELSE Crops(call.width, call.height,
                                         call.fragment_height),
                    strips |-> jpg.strips,
                    value |-> ConvertImageToSJPG(call.width, call.height,
                                  call.fragment_height, jpg)]
    /\ pc' = "returned"
    /\ UNCHANGED <<call, execVars>>

NextSJPG == CallConvertImageToSJPG

SpecSJPG == InitSJPG /\ [][NextSJPG]_vars

-----------------------------------------------------------------------------
(* _convertSnapshotToGcode on its own *)

HexChars == {"0", "9", "f"}

RECURSIVE HexStrings(_)
HexStrings(n) ==
    IF n = 0 THEN {""}
    ELSE HexStrings(n - 1)
         \cup {s \o c : s \in {t \in HexStrings(n - 1) : Len(t) = n - 1},
                        c \in HexChars}

GcodeArgs ==
    {[fn |-> "_convertSnapshotToGcode", encoded_snapshot |-> s,
      chunk_size |-> c] : s \in HexStrings(MaxHexLen), c \in 1..MaxChunk}

InitGcode ==
    /\ pc = "call"
    /\ call \in GcodeArgs
    /\ ret = NoCall
    /\ IdleExecute

CallConvertSnapshotToGcode ==
    /\ pc = "call"
    /\ call.fn = "_convertSnapshotToGcode"
    /\ ret' = [value |-> GcodeLines(call.encoded_snapshot, call.chunk_size)]
    /\ pc' = "returned"
    /\ UNCHANGED <<call, execVars>>

NextGcode == CallConvertSnapshotToGcode

SpecGcode == InitGcode /\ [][NextGcode]_vars

-----------------------------------------------------------------------------
(* Vocabulary of the properties *)

Range(l) == {l[i] : i \in 1..Len(l)}

\* a is a subsequence of b: a[i..] can be matched in order inside b[j..]
RECURSIVE SubseqFrom(_, _, _, _)
SubseqFrom(a, i, b, j) ==
    IF i > Len(a) THEN TRUE
    ELSE IF j > Len(b) THEN FALSE
         ELSE IF a[i] = b[j] THEN SubseqFrom(a, i + 1, b, j + 1)
              ELSE SubseqFrom(a, i, b, j + 1)

IsSubseq(a, b) == SubseqFrom(a, 1, b, 1)

\* the lines of l from position i on that are no usage marker, in order
RECURSIVE OtherLines(_, _)
OtherLines(l, i) ==
    IF i > Len(l) THEN <<>>
    ELSE (IF StartsWith(l[i], ";Filament used: ") THEN <<>> ELSE <<l[i]>>)
         \o OtherLines(l, i + 1)

RECURSIVE ConcatStrings(_, _)
ConcatStrings(l, i) ==
    IF i > Len(l) THEN "" ELSE l[i] \o ConcatStrings(l, i + 1)

IsUsageMarker(line) == StartsWith(line, FilamentPrefix)
IsGenerator(line) == StartsWith(line, GeneratorPrefix)
HasMarker(seg) ==
    \E line \in Range(Split(seg)) : IsUsageMarker(line) \/ IsGenerator(line)
HasGenerator(seg) == \E line \in Range(Split(seg)) : IsGenerator(line)

\* a usage marker line whose value parses as meters
IsMeterUsage(line) ==
    /\ IsUsageMarker(line)
    /\ FloatParses(RemoveM(AfterLastSpace(line)))

Count(l, x) == Cardinality({i \in 1..Len(l) : l[i] = x})

MetadataAvailable == material.type = "str" /\ infill_density.type = "str"
SettingsRead == pc # "settings"

\* little-endian 16-bit field at 0-based offset off of byte string b
Field16(b, off) == b[off + 1] + 256 * b[off + 2]
\* magic tag, version field and four 16-bit fields
FixedHeaderLen == 7 + 7 + 4 * 2

-----------------------------------------------------------------------------
(* Properties of _convertImageToSJPG, checked under SpecSJPG *)

\* C1: whenever _convertImageToSJPG returns a container for H >= 1 and
\* F >= 1, the strip-count field is ceil(H/F), the length table has that many
\* 2-byte entries, entry i is the byte length of compressed strip i, and the
\* declared lengths sum to the size of the payload after the header.
C1_ContainerLayout ==
    (/\ pc = "returned"
     /\ call.fn = "_convertImageToSJPG"
     /\ ret.value.type = "bytes"
     /\ call.height >= 1
     /\ call.fragment_height >= 1)
    => LET b == ret.value.val
           H == call.height
           F == call.fragment_height
           count == Field16(b, 18)
           entry == [i \in 1..count |-> Field16(b, FixedHeaderLen + 2 * (i - 1))]
       IN /\ count * F >= H
          /\ (count - 1) * F < H
          /\ count = Len(ret.strips)
          /\ Len(b) >= FixedHeaderLen + 2 * count
          /\ \A i \in 1..count : entry[i] = Len(ret.strips[i])
          /\ SumSeq(entry) = Len(b) - (FixedHeaderLen + 2 * count)
          /\ SubSeq(b, FixedHeaderLen + 2 * count + 1, Len(b))
               = Flatten(ret.strips)

\* a container of several strips of different sizes, the last strip short
\* and the first one long enough to fill both bytes of its table entry
C1_Witness ==
    /\ pc = "returned"
    /\ call.fn = "_convertImageToSJPG"
    /\ ret.value.type = "bytes"
    /\ call.height % call.fragment_height # 0
    /\ Len(ret.strips) >= 2
    /\ Len(ret.strips[1]) >= 256
    /\ Len(ret.strips[1]) # Len(ret.strips[2])

\* C2: strip i (0-based) is cropped at y = i*F over the full width; every
\* strip but the last has F rows, the last has H mod F rows (F when F divides
\* H); heights are >= 1 and sum to H; 140x140 with F = 16 gives 9 strips,
\* the 9th of 12 rows.
C2_StripGeometry ==
    (/\ pc = "returned"
     /\ call.fn = "_convertImageToSJPG"
     /\ call.fragment_height >= 1
     /\ ret.crops # <<>>)
    => LET H == call.height
           F == call.fragment_height
           n == Len(ret.crops)
           last == IF H % F = 0 THEN F ELSE H % F
       IN /\ n >= 1
          /\ \A i \in 1..n :
               /\ ret.crops[i].x = 0
               /\ ret.crops[i].y = (i - 1) * F
               /\ ret.crops[i].w = call.width
               /\ ret.crops[i].h = (IF i < n THEN F ELSE last)
               /\ ret.crops[i].h >= 1
          /\ SumSeq([i \in 1..n |-> ret.crops[i].h]) = H
          /\ (H = 140 /\ F = 16) => (n = 9 /\ ret.crops[9].h = 12)

\* the thumbnail's own geometry: 140 rows in fragments of 16
C2_Witness ==
    /\ pc = "returned"
    /\ call.fn = "_convertImageToSJPG"
    /\ call.height = 140
    /\ call.fragment_height = 16
    /\ Len(ret.crops) = 9
    /\ ret.crops[9].h = 12

-----------------------------------------------------------------------------
(* Property of _convertSnapshotToGcode, checked under SpecGcode *)

\* C3: for hex string s and chunk size c >= 1 the result is '; thumbnail
\* begin', 'W221', ceil(len(s)/c) data lines, 'W222', '; thumbnail end', '';
\* each data line is 'W220 ' plus 1..c characters (exactly c for all but the
\* last), and the payloads concatenated in order give back s.
C3_GcodeBlock ==
    (pc = "returned" /\ call.fn = "_convertSnapshotToGcode")
    => LET s == call.encoded_snapshot
           c == call.chunk_size
           l == ret.value
           n == Len(l) - 5
           payload == [i \in 1..n |-> SubSeq(l[i + 2], 6, Len(l[i + 2]))]
       IN /\ n >= 0
          /\ n * c >= Len(s)
          /\ (n - 1) * c < Len(s) \/ (n = 0 /\ Len(s) = 0)
          /\ l[1] = "; thumbnail begin"
          /\ l[2] = "W221"
          /\ l[n + 3] = "W222"
          /\ l[n + 4] = "; thumbnail end"
          /\ l[n + 5] = ""
          /\ \A i \in 1..n :
               /\ SubSeq(l[i + 2], 1, 5) = "W220 "
               /\ Len(payload[i]) >= 1
               /\ Len(payload[i]) <= c
               /\ (i < n => Len(payload[i]) = c)
          /\ ConcatStrings(payload, 1) = s

\* a string that needs several lines, the last one partial
C3_Witness ==
    /\ pc = "returned"
    /\ call.fn = "_convertSnapshotToGcode"
    /\ Len(call.encoded_snapshot) > call.chunk_size
    /\ Len(call.encoded_snapshot) % call.chunk_size # 0
    /\ Len(ret.value) >= 7

-----------------------------------------------------------------------------
(* Properties of execute, checked under Spec *)

\* C4 (as claimed): with snapshot and metadata available, every usage marker
\* line with a value in meters is converted wherever it sits relative to a
\* generator line: no such line is left, '12.500m' becomes
\* ';FilamentUsed:12500.00', and each usage line is directly preceded by the
\* infill line and then the material line.
C4_EveryUsageLineConverted ==
    (pc = "done" /\ snapshot = PyImage /\ MetadataAvailable)
    => \A k \in 1..Len(data) :
         LET out == Split(data[k])
         IN /\ \A i \in 1..Len(out) : ~IsMeterUsage(out[i])
            /\ \A i \in 1..Len(out) :
                 StartsWith(out[i], ";FilamentUsed:")
                 => /\ i >= 3
                    /\ out[i - 2] = ";InfillDensity:" \o InfillDensity
                    /\ out[i - 1] = ";FilamentType:" \o MaterialName
            /\ UsageLine \in Range(Split(data0[k]))
                 => ";FilamentUsed:12500.00" \in Range(out)

\* C5 (as claimed): with a thumbnail block available, every segment that has
\* a generator line gets the whole block exactly once, contiguous, right
\* after its first generator line.
C5_BlockOncePerSegment ==
    (pc = "done" /\ snapshot_gcode.type = "list")
    => \A k \in 1..Len(data) :
         HasGenerator(data0[k])
         => LET in == Split(data0[k])
                out == Split(data[k])
                block == snapshot_gcode.val
                g == CHOOSE i \in 1..Len(out) :
                       /\ IsGenerator(out[i])
                       /\ \A j \in 1..(i - 1) : ~IsGenerator(out[j])
            IN /\ SubSeq(out, g + 1, g + Len(block)) = block
               /\ Count(out, "W221") = Count(in, "W221") + 1

\* C6 (as claimed): when the SJPG conversion fails, no exception escapes
\* execute.
C6_ConversionFailureIsSilent ==
    (sjpg_snapshot = PyNone) => pc # "raised"

\* every usage marker line of the input carries a value in meters
AllUsageParses ==
    \A k \in 1..Len(data0) :
      \A line \in Range(Split(data0[k])) :
        IsUsageMarker(line) => IsMeterUsage(line)

\* C7 (as claimed): when the print settings cannot be retrieved, no exception
\* escapes execute and the returned document holds no injected metadata
\* line.  (Stated for the runs in which nothing else fails: the thumbnail
\* conversion succeeds and every usage value parses.)
C7_MissingSettingsAreSilent ==
    (/\ SettingsRead /\ ~MetadataAvailable
     /\ sjpg_snapshot # PyNone /\ AllUsageParses)
    => /\ pc # "raised"
       /\ pc = "done"
            => \A k \in 1..Len(data) :
                 \A line \in Range(Split(data[k])) :
                    (\/ StartsWith(line, ";FilamentType:")
                     \/ StartsWith(line, ";InfillDensity:")
                     \/ StartsWith(line, ";FilamentUsed:"))
                    => line \in Range(Split(data0[k]))

\* C8: when the snapshot capture fails, execute goes straight to its return
\* with every layer as it was passed in, and raises nothing.
C8_CaptureFailureLeavesDocument ==
    (snapshot = PyNone) => (pc \in {"return", "done"} /\ data = data0)

\* execute returned after a failed capture, on a document with a generator line
C8_Witness ==
    /\ pc = "done"
    /\ snapshot = PyNone
    /\ \E k \in 1..Len(data0) : HasGenerator(data0[k])

\* C9: execute keeps the number and order of segments; a segment without
\* marker lines is unchanged; in any segment the original lines other than
\* usage marker lines are all still there, unmodified and in their order.
C9_SegmentsAndLinesKept ==
    /\ Len(data) = Len(data0)
    /\ \A k \in 1..Len(data0) :
         /\ ~HasMarker(data0[k]) => data[k] = data0[k]
         /\ IsSubseq(OtherLines(Split(data0[k]), 1),
                     Split(data[k]))

\* execute returned a document of which one segment was rewritten around a
\* move line and another one had no marker
C9_Witness ==
    /\ pc = "done"
    /\ \E k1, k2 \in 1..Len(data0) :
         /\ HasGenerator(data0[k1])
         /\ MoveLine \in Range(Split(data0[k1]))
         /\ data[k1] # data0[k1]
         /\ ~HasMarker(data0[k2])

\* the single forward pass with a positional cursor: copy the input lines to
\* the output, put the infill and material lines and the usage line in place
\* of a usage marker, put the block after the first generator line and copy
\* the rest as it is
RECURSIVE ForwardPass(_, _, _, _, _)
ForwardPass(in, i, mat, inf, block) ==
    IF i > Len(in) THEN <<>>
    ELSE IF IsUsageMarker(in[i])
         THEN <<";InfillDensity:" \o inf, ";FilamentType:" \o mat,
                ";FilamentUsed:"
                  \o FormatMm2f(FloatE5(RemoveM(AfterLastSpace(in[i]))))>>
              \o ForwardPass(in, i + 1, mat, inf, block)
         ELSE IF IsGenerator(in[i])
              THEN <<in[i]>> \o block \o SubSeq(in, i + 1, Len(in))
              ELSE <<in[i]>> \o ForwardPass(in, i + 1, mat, inf, block)

\* C10 (as claimed): the scan by content lookup gives the document of the
\* forward pass: output segment k is the transformation of input segment k
\* alone.
C10_SameAsForwardPass ==
    (pc = "done" /\ snapshot_gcode.type = "list" /\ MetadataAvailable)
    => \A k \in 1..Len(data0) :
         data[k] = Join(ForwardPass(Split(data0[k]), 1, material.val,
                                    infill_density.val, snapshot_gcode.val))

=============================================================================
